---- MODULE Spec2Model ----
(***************************************************************************)
(* Model of scripts/git_port_to_target.py: one run of the `apply` command.  *)
(*                                                                         *)
(* Text is a sequence of one-character strings.  The file system and the   *)
(* git repository are the environment: every external command returns an   *)
(* exit status chosen by the environment, and run_command turns a nonzero   *)
(* status into ShellCommandError only when check=True.  Library file       *)
(* primitives (mkdtemp, unlink, rmtree) are taken to succeed.  An action   *)
(* is the code between two blocking calls (a subprocess or a prompt);      *)
(* a keyboard interrupt is delivered at such a point inside the try block, *)
(* or between the creation of a temporary artifact and the assignment of   *)
(* op_details that makes it known to the finally block.                    *)
(* cmds holds <<command, status>> for every command run; a command whose   *)
(* status and output the code discards is recorded with status 0.          *)
(* Line 794 repeats the `global` declaration of line 758; the model reads  *)
(* both as the one declaration.                                            *)
(*                                                                         *)
(* Two more programs of the repository have a specification of their own:  *)
(* SpecMerge is scripts/synapse.py, Config.get_effective_config, and       *)
(* SpecCleanup is scripts/cleanup_worktrees.py, main.  Each specification  *)
(* holds the variables of the other programs at their idle values.         *)
(***************************************************************************)
EXTENDS Integers, Sequences, FiniteSets, TLC

\* ------------------------------------------------------------------ bounds
MaxCommits == 2
MaxClock == 1

\* -------------------------------------------------------------------- text
IsUpper(c) == c \in {"A", "B"}
IsDigit(c) == c \in {"1", "2", "3"}

\* ref names a user passes as target / --source, or git reports as current
NoTicket == <<"m">>
RefT1 == <<"f", "/", "A", "-", "1">>
RefT3 == <<"r", "/", "B", "-", "3">>
RangePlain == <<"m", ".", ".", "d">>
RefTwo == <<"A", "-", "x", "A", "B", "-", "2", "1", "A", "-", "1">>
SourceRefs == {NoTicket, RangePlain, RefTwo}
CurrentBranches == {RefT1}
TargetRefs == {NoTicket, RefT3}
DefaultBase == <<"o", "/", "d">>
Messages == {<<>>, <<"M">>}
Subjects == {<<"w">>, <<"B", "-", "2", "x">>, <<"x", "A", "-", "3">>}

RECURSIVE SeqsUpTo(_, _)
SeqsUpTo(S, n) ==
    IF n = 0 THEN {<<>>}
    ELSE LET shorter == SeqsUpTo(S, n - 1)
         IN shorter \cup {Append(q, x) : q \in shorter, x \in S}

CommitLists == SeqsUpTo(Subjects, MaxCommits)

\* index of the last element of the maximal run of [A-Z] starting at i
RECURSIVE UpperRunEnd(_, _)
UpperRunEnd(s, i) ==
    IF i + 1 <= Len(s) /\ IsUpper(s[i + 1]) THEN UpperRunEnd(s, i + 1) ELSE i

\* index of the last element of the maximal run of \d starting at i
RECURSIVE DigitRunEnd(_, _)
DigitRunEnd(s, i) ==
    IF i + 1 <= Len(s) /\ IsDigit(s[i + 1]) THEN DigitRunEnd(s, i + 1) ELSE i

\* re.search(r"([A-Z]+-\d+)", text) tried at start position i
MatchAt(s, i) ==
    /\ i <= Len(s)
    /\ IsUpper(s[i])
    /\ LET j == UpperRunEnd(s, i)
       IN /\ j + 2 <= Len(s)
          /\ s[j + 1] = "-"
          /\ IsDigit(s[j + 2])

MatchText(s, i) ==
    LET j == UpperRunEnd(s, i)
    IN SubSeq(s, i, DigitRunEnd(s, j + 2))

RECURSIVE re_search(_, _)
re_search(s, i) ==
    IF i > Len(s) THEN <<>>
    ELSE IF MatchAt(s, i) THEN MatchText(s, i)
    ELSE re_search(s, i + 1)

\* extract_jira_id: the first match, or <<>> for None
extract_jira_id(text) == re_search(text, 1)

\* the loop of _prepare_operation_details over the commit subjects, with break
RECURSIVE jira_from_commits(_, _)
jira_from_commits(commits, i) ==
    IF i > Len(commits) THEN <<>>
    ELSE IF extract_jira_id(commits[i]) # <<>> THEN extract_jira_id(commits[i])
    ELSE jira_from_commits(commits, i + 1)

HasDotDot(s) == \E i \in 1..(Len(s) - 1) : s[i] = "." /\ s[i + 1] = "."

is_explicit_range(resolved) == HasDotDot(resolved)

effective_diff_source_of(base, resolved) ==
    IF is_explicit_range(resolved) THEN resolved
    ELSE base \o <<".", ".">> \o resolved

\* mutant: the comparison made against the diff range instead of the ref name
SourceIsTarget_range(resolved, tgt) ==
    effective_diff_source_of(DefaultBase, resolved) = tgt

\* apply, line 1053: the fail-fast comparison
SourceIsTarget(resolved, tgt) == resolved = tgt

\* get_commits_for_patch: status is what `git log <range>` did ("ok",
\* "unknown_rev": nonzero with the unknown-revision stderr, "error": any other
\* nonzero), out its stdout lines, fb the stdout lines of the fallback log
get_commits_for_patch(range, status, out, fb) ==
    IF status = "error" THEN [raised |-> TRUE, commits |-> <<>>, fallback |-> FALSE]
    ELSE IF status = "unknown_rev"
        THEN [raised |-> FALSE, commits |-> <<>>, fallback |-> FALSE]
    ELSE IF out # <<>> THEN [raised |-> FALSE, commits |-> out, fallback |-> FALSE]
    ELSE IF ~HasDotDot(range)
        THEN [raised |-> FALSE, commits |-> fb, fallback |-> TRUE]
    ELSE [raised |-> FALSE, commits |-> <<>>, fallback |-> FALSE]

\* mutant: the target name consulted before the commit subjects
jira_id_steps_target_first(src, commits, tgt) ==
    IF extract_jira_id(src) # <<>> THEN extract_jira_id(src)
    ELSE IF extract_jira_id(tgt) # <<>> THEN extract_jira_id(tgt)
    ELSE jira_from_commits(commits, 1)

\* steps 1-3 of _prepare_operation_details: source name, commits, target name
jira_id_steps(src, commits, tgt) ==
    IF extract_jira_id(src) # <<>> THEN extract_jira_id(src)
    ELSE IF jira_from_commits(commits, 1) # <<>> THEN jira_from_commits(commits, 1)
    ELSE extract_jira_id(tgt)

\* mutant: a missing ID is let through
JiraMissing_never(j) == FALSE

\* step 4: `if not jira_id: raise typer.Exit(code=1)`
JiraMissing(j) == j = <<>>

\* mutant: the override message is ignored
final_message_generated_only(override, jira, src, tgt, commits) ==
    [kind |-> "generated", text |-> <<>>,
     jira |-> jira, src |-> src, tgt |-> tgt, commits |-> commits]

\* final_commit_message = message_override or (generated text)
final_message(override, jira, src, tgt, commits) ==
    IF override # <<>> THEN [kind |-> "override", text |-> override,
                              jira |-> <<>>, src |-> <<>>, tgt |-> <<>>, commits |-> <<>>]
    ELSE [kind |-> "generated", text |-> <<>>,
          jira |-> jira, src |-> src, tgt |-> tgt, commits |-> commits]

NoMessage == [kind |-> "unset", text |-> <<>>,
              jira |-> <<>>, src |-> <<>>, tgt |-> <<>>, commits |-> <<>>]

\* mutant: the size of the patch file is not looked at
patch_has_content_any(size) == TRUE

\* _create_patch_file: `st_size == 0` means no content
patch_has_content(size) == size # 0

\* run_command, lines 99-115: ShellCommandError on a nonzero status only when
\* check=True, and on a missing executable whatever check is
run_command_raises(check, st, found) == ~found \/ (check /\ st # 0)

\* _setup_worktree, lines 332-347: the ref handed to `git worktree add`
starts_with_origin(tgt) == Len(tgt) >= 2 /\ tgt[1] = "o" /\ tgt[2] = "/"

branch_ref_of(tgt, st) ==
    IF starts_with_origin(tgt) THEN "target"
    ELSE IF run_command_raises(FALSE, st, TRUE) THEN "target"
    ELSE "origin/target"

\* branch names of _setup_worktree: suffix 0 is feature/<jira>-<target>,
\* suffix t > 0 is that name followed by "-" and the timestamp t
NoBranch == [suffix |-> -1]
BaseBranch == [suffix |-> 0]
Suffixed(t) == [suffix |-> t]
Clock == 1..MaxClock
BranchNames == {BaseBranch} \cup {Suffixed(t) : t \in Clock}

\* --------------------------------------------------------------- exceptions
NoExc == [type |-> "none", code |-> 0, site |-> "none"]

\* the except clauses of apply (lines 1181-1227): ShellCommandError,
\* CalledProcessError, KeyboardInterrupt, and `except Exception`, which also
\* takes typer.Exit (click's Exit derives from RuntimeError)
CaughtByApply(e) ==
    e.type \in {"ShellCommandError", "CalledProcessError", "KeyboardInterrupt", "Exit"}

\* no handler re-raises, so apply returns and the process status is 0
exit_code_of(e) == IF e.type = "none" \/ CaughtByApply(e) THEN 0 ELSE e.code

\* mutant: the keep flags read the wrong way round
should_cleanup_worktree_inverted(have_path, keep, global_keep) ==
    have_path /\ (keep \/ global_keep)

\* finally, line 1251: clean up unless a keep flag is set
should_cleanup_worktree(have_path, keep, global_keep) ==
    have_path /\ ~(keep \/ global_keep)

\* mutant: the patch file is deleted whatever the status
should_delete_patch_always(status) == TRUE

\* finally, lines 1277-1279
should_delete_patch(status) == status # "USER_WILL_RESOLVE"

\* -------------------------------------------------------------------- state
VARIABLES
    pc,                         \* where the run is
    target, source, message,    \* CLI arguments; <<>> is "not given"
    resolved_source_ref_name,
    git_log,                    \* <<result>> of `git log <range>` between the two
                                \* calls of the preparation, <<>> otherwise
    op_set,                     \* op_details is not None
    jira_id,
    final_commit_message,
    patch_exists, patch_size,   \* the patch file
    dir_exists,                 \* the temporary worktree directory
    wt_registered,              \* git's worktree registration
    wt_content,                 \* what the worktree's files hold
    cleanup_worktree_on_exit, patch_status, worktree_path_set,
    keep_worktree, WORKTREE_SHOULD_BE_KEPT,
    branch_ref, local_branches, remote_has_base,
    new_branch_name,            \* _setup_worktree's local
    new_branch_in_worktree,     \* apply's, set when _setup_worktree returns
    wt_branch, branch_choice,
    choice,                     \* conflict-menu answer, "0" before the menu
    push_failed,
    exc, exit_code,
    cmds,                       \* <<command, exit status>> of every git/editor run
    worktree_commits,           \* [branch, message] of each commit made in the worktree
    push_branch,                \* the branch argument of `git push origin`
    cwd,                        \* the process's working directory
    continue_anyway,            \* answer to "Continue anyway?", "none" if not asked
    panel,                      \* title of the last panel apply printed at its end
    proceed_answer,             \* answer to "Proceed with this commit message and
                                \* operation?", "none" if not asked
    \* synapse.py, Config.get_effective_config
    cfg_pc, common, specific, effective,
    \* cleanup_worktrees.py, main
    cw_pc, root_ok, force, worktrees, lookups, scan_i, to_delete, kept,
    should_delete, delete_i, removed, branches_deleted,
    confirm_answer              \* answer to "Do you want to proceed with
                                \* deletion?", "none" if not asked

args == <<target, source, message>>
prep == <<resolved_source_ref_name, git_log, op_set, jira_id, final_commit_message>>
fs == <<patch_exists, patch_size, dir_exists, wt_registered, wt_content>>
flags == <<cleanup_worktree_on_exit, patch_status, worktree_path_set,
           keep_worktree, WORKTREE_SHOULD_BE_KEPT>>
br == <<branch_ref, local_branches, remote_has_base, new_branch_name,
        new_branch_in_worktree, wt_branch, branch_choice>>
done == <<worktree_commits, push_branch, cwd, continue_anyway, panel, proceed_answer>>
gitvars == <<pc, args, prep, fs, flags, br, choice, push_failed, exc, exit_code, cmds, done>>
cfgvars == <<cfg_pc, common, specific, effective>>
cwvars == <<cw_pc, root_ok, force, worktrees, lookups, scan_i, to_delete, kept,
            should_delete, delete_i, removed, branches_deleted, confirm_answer>>
others == <<cfgvars, cwvars>>
vars == <<gitvars, cfgvars, cwvars>>

effective_diff_source == effective_diff_source_of(DefaultBase, resolved_source_ref_name)

\* the other two programs, not running
CfgIdle ==
    /\ cfg_pc = "idle"
    /\ common = <<>>
    /\ specific = <<>>
    /\ effective = <<>>
CwIdle ==
    /\ cw_pc = "idle"
    /\ root_ok = FALSE
    /\ force = FALSE
    /\ worktrees = <<>>
    /\ lookups = <<>>
    /\ scan_i = 0
    /\ to_delete = <<>>
    /\ kept = <<>>
    /\ should_delete = FALSE
    /\ delete_i = 0
    /\ removed = {}
    /\ branches_deleted = {}
    /\ confirm_answer = "none"

\* apply, lines 1023-1034: the locals before the try block
GitStart ==
    /\ resolved_source_ref_name = <<>>
    /\ git_log = <<>>
    /\ op_set = FALSE
    /\ jira_id = <<>>
    /\ final_commit_message = NoMessage
    /\ patch_exists = FALSE
    /\ patch_size = 0
    /\ dir_exists = FALSE
    /\ wt_registered = FALSE
    /\ wt_content = "none"
    /\ cleanup_worktree_on_exit = FALSE
    /\ patch_status = "None"
    /\ worktree_path_set = FALSE
    /\ keep_worktree = FALSE
    /\ WORKTREE_SHOULD_BE_KEPT = FALSE
    /\ branch_ref = "none"
    /\ local_branches = {}
    /\ remote_has_base = FALSE
    /\ new_branch_name = NoBranch
    /\ new_branch_in_worktree = NoBranch
    /\ wt_branch = NoBranch
    /\ branch_choice = "0"
    /\ choice = "0"
    /\ push_failed = FALSE
    /\ exc = NoExc
    /\ exit_code = -1
    /\ cmds = {}
    /\ worktree_commits = <<>>
    /\ push_branch = NoBranch
    /\ cwd = "original_dir"
    /\ continue_anyway = "none"
    /\ panel = "none"
    /\ proceed_answer = "none"

\* git_port_to_target.py not running
GitIdle ==
    /\ pc = "idle"
    /\ target = <<>>
    /\ source = <<>>
    /\ message = <<>>
    /\ GitStart

Init ==
    /\ pc = "start"
    /\ target \in TargetRefs
    /\ source \in SourceRefs \cup {<<>>}
    /\ message \in Messages
    /\ GitStart
    /\ CfgIdle
    /\ CwIdle

Raise(type, code, site) ==
    /\ exc' = [type |-> type, code |-> code, site |-> site]
    /\ pc' = "finally"

Ran(pairs) == cmds' = cmds \cup pairs

\* get_git_repo_root (line 1023, outside the try block)
GetRepoRoot ==
    /\ pc = "start"
    /\ \E st \in {0, 1} :
        /\ Ran({<<"rev-parse --show-toplevel", st>>})
        /\ IF st = 0
           THEN /\ pc' = "resolve"
                /\ UNCHANGED <<exc, exit_code>>
           ELSE /\ exc' = [type |-> "Exit", code |-> 1, site |-> "no_repo"]
                /\ exit_code' = 1
                /\ pc' = "exited"
    /\ UNCHANGED <<args, prep, fs, flags, br, choice, push_failed>>
    /\ UNCHANGED done
    /\ UNCHANGED others

\* _resolve_source_branch, then the source = target check (lines 1037-1059)
ResolveSource ==
    /\ pc = "resolve"
    /\ \E st \in {0, 1}, cur \in CurrentBranches :
        LET asked == source = <<>>
            res == IF asked THEN cur ELSE source
        IN /\ ~asked => st = 0
           /\ IF asked THEN Ran({<<"rev-parse --abbrev-ref HEAD", st>>})
              ELSE UNCHANGED cmds
           /\ IF asked /\ st # 0
              THEN /\ Raise("ShellCommandError", 0, "current_branch")
                   /\ UNCHANGED resolved_source_ref_name
              ELSE /\ resolved_source_ref_name' = res
                   /\ IF SourceIsTarget(res, target)
                      THEN Raise("Exit", 1, "same_ref")
                      ELSE pc' = "prepare_ticket" /\ UNCHANGED exc
    /\ UNCHANGED <<args, git_log, op_set, jira_id, final_commit_message,
                   fs, flags, br, choice, push_failed, exit_code>>
    /\ UNCHANGED done
    /\ UNCHANGED others

\* what `git log <source> ^<target>` would return where the range log is empty
FallbackLists == {<<>>, <<<<"B", "-", "2", "x">>>>}

\* what `git log --pretty=format:%s --no-merges <range>` can return
LogResults ==
    {[status |-> "ok", out |-> o, fb |-> <<>>] : o \in CommitLists \ {<<>>}}
        \cup {[status |-> "ok", out |-> <<>>, fb |-> f] : f \in FallbackLists}
        \cup {[status |-> "unknown_rev", out |-> <<>>, fb |-> <<>>],
              [status |-> "error", out |-> <<>>, fb |-> <<>>]}

\* the repository does not change between the two log calls of one run
LogChoices == IF git_log = <<>> THEN LogResults ELSE {git_log[1]}

LogCmds(g, r) ==
    {<<"log", IF g.status = "ok" THEN 0 ELSE 1>>}
        \cup (IF r.fallback THEN {<<"log fallback", 0>>} ELSE {})

\* _prepare_operation_details, lines 846-894: the ticket ID or the fatal exit
PrepareTicket ==
    /\ pc = "prepare_ticket"
    /\ IF extract_jira_id(resolved_source_ref_name) # <<>>
       THEN /\ jira_id' = jira_id_steps(resolved_source_ref_name, <<>>, target)
            /\ pc' = "prepare_message"
            /\ UNCHANGED <<git_log, cmds, exc>>
       ELSE \E g \in LogChoices :
            LET r == get_commits_for_patch(effective_diff_source, g.status, g.out, g.fb)
                j == jira_id_steps(resolved_source_ref_name, r.commits, target)
            IN /\ git_log' = <<g>>
               /\ Ran(LogCmds(g, r))
               /\ IF r.raised
                  THEN Raise("ShellCommandError", 0, "git_log") /\ UNCHANGED jira_id
                  ELSE IF JiraMissing(j)
                  THEN Raise("Exit", 1, "no_ticket") /\ UNCHANGED jira_id
                  ELSE jira_id' = j /\ pc' = "prepare_message" /\ UNCHANGED exc
    /\ UNCHANGED <<args, resolved_source_ref_name, op_set, final_commit_message,
                   fs, flags, br, choice, push_failed, exit_code>>
    /\ UNCHANGED done
    /\ UNCHANGED others

\* _prepare_operation_details, lines 896-917: second log, message, mkdtemp
PrepareMessage ==
    /\ pc = "prepare_message"
    /\ \E g \in LogChoices :
        LET r == get_commits_for_patch(effective_diff_source, g.status, g.out, g.fb)
        IN /\ Ran(LogCmds(g, r))
           /\ IF r.raised
              THEN /\ Raise("ShellCommandError", 0, "git_log")
                   /\ git_log' = <<g>>
                   /\ UNCHANGED <<final_commit_message, dir_exists>>
              ELSE /\ git_log' = <<>>
                   /\ final_commit_message' =
                        final_message(message, jira_id, resolved_source_ref_name,
                                      target, r.commits)
                   /\ dir_exists' = TRUE
                   /\ pc' = "prepare_patch_file"
                   /\ UNCHANGED exc
    /\ UNCHANGED <<args, resolved_source_ref_name, jira_id, op_set, patch_exists,
                   patch_size, wt_registered, wt_content, flags, br, choice,
                   push_failed, exit_code>>
    /\ UNCHANGED done
    /\ UNCHANGED others

\* _prepare_operation_details, lines 922-926: NamedTemporaryFile(delete=False)
\* creates the empty patch file
PreparePatchFile ==
    /\ pc = "prepare_patch_file"
    /\ patch_exists' = TRUE
    /\ pc' = "prepare_return"
    /\ UNCHANGED <<args, prep, patch_size, dir_exists, wt_registered, wt_content,
                   flags, br, choice, push_failed, exc, exit_code, cmds>>
    /\ UNCHANGED done
    /\ UNCHANGED others

\* lines 928-933 and 1061: the details are returned and assigned to op_details
PrepareReturn ==
    /\ pc = "prepare_return"
    /\ op_set' = TRUE
    /\ pc' = "confirm"
    /\ UNCHANGED <<args, resolved_source_ref_name, git_log, jira_id,
                   final_commit_message, fs, flags, br, choice, push_failed, exc,
                   exit_code, cmds>>
    /\ UNCHANGED done
    /\ UNCHANGED others

\* mutant: the answer to the confirmation is not looked at
confirmation_declined_never(yes) == FALSE

\* line 1081: `if not typer.confirm(...)`
confirmation_declined(yes) == ~yes

\* typer.confirm("Proceed with this commit message and operation?"), lines 1081-1090
Confirm ==
    /\ pc = "confirm"
    /\ \E yes \in BOOLEAN :
        /\ proceed_answer' = IF yes THEN "yes" ELSE "no"
        /\ IF confirmation_declined(yes)
           THEN /\ patch_exists' = FALSE
                /\ dir_exists' = FALSE
                /\ Raise("Exit", 0, "declined")
           ELSE /\ pc' = "create_patch"
                /\ UNCHANGED <<patch_exists, dir_exists, exc>>
    /\ UNCHANGED <<args, prep, patch_size, wt_registered, wt_content, flags, br,
                   choice, push_failed, exit_code, cmds>>
    /\ UNCHANGED <<worktree_commits, push_branch, cwd, continue_anyway, panel>>
    /\ UNCHANGED others

\* _create_patch_file and the empty-patch exit, lines 1092-1105
CreatePatch ==
    /\ pc = "create_patch"
    /\ \E st \in {0, 1}, size \in {0, 1} :
        /\ st = 1 => size = 0
        /\ Ran({<<"diff --output", st>>})
        /\ IF st # 0
           THEN /\ Raise("ShellCommandError", 0, "git_diff")
                /\ UNCHANGED <<patch_exists, patch_size, dir_exists>>
           ELSE /\ patch_size' = size
                /\ IF patch_has_content(size)
                   THEN /\ pc' = "setup_fetch"
                        /\ UNCHANGED <<patch_exists, dir_exists, exc>>
                   ELSE /\ patch_exists' = FALSE
                        /\ dir_exists' = FALSE
                        /\ Raise("Exit", 0, "empty_patch")
    /\ UNCHANGED <<args, prep, wt_registered, wt_content, flags, br,
                   choice, push_failed, exit_code>>
    /\ UNCHANGED done
    /\ UNCHANGED others

\* _setup_worktree, lines 302-347: drop the mkdtemp directory, best-effort
\* fetch, choose the checkout ref
SetupFetch ==
    /\ pc = "setup_fetch"
    /\ \E parse_st \in {0, 1} :
        /\ dir_exists' = FALSE
        /\ branch_ref' = branch_ref_of(target, parse_st)
        /\ Ran({<<"fetch origin", 0>>}
                 \cup (IF starts_with_origin(target) THEN {}
                       ELSE {<<"rev-parse origin/target", parse_st>>}))
    /\ pc' = "setup_add"
    /\ UNCHANGED <<args, prep, patch_exists, patch_size, wt_registered, wt_content,
                   flags, local_branches, remote_has_base, new_branch_name,
                   new_branch_in_worktree, wt_branch, branch_choice, choice, push_failed, exc, exit_code>>
    /\ UNCHANGED done
    /\ UNCHANGED others

\* _setup_worktree, lines 349-380: `git worktree add --force` and its checks
SetupAdd ==
    /\ pc = "setup_add"
    /\ \E st \in {0, 1}, populated \in BOOLEAN :
        /\ st = 1 => populated
        /\ IF run_command_raises(TRUE, st, TRUE)
           THEN /\ Ran({<<"worktree add", st>>})
                /\ Raise("Exit", 1, "worktree_add")
                /\ UNCHANGED <<dir_exists, wt_registered, wt_content>>
           ELSE /\ dir_exists' = TRUE
                /\ wt_registered' = TRUE
                /\ IF populated
                   THEN /\ Ran({<<"worktree add", st>>})
                        /\ wt_content' = "target"
                        /\ pc' = "setup_branch_check"
                        /\ UNCHANGED exc
                   ELSE /\ Ran({<<"worktree add", st>>, <<"status", 0>>})
                        /\ wt_content' = "empty"
                        /\ Raise("Exit", 1, "worktree_empty")
    /\ UNCHANGED <<args, prep, patch_exists, patch_size, flags, br,
                   choice, push_failed, exit_code>>
    /\ UNCHANGED done
    /\ UNCHANGED others

\* _setup_worktree, lines 382-408: does feature/<jira>-<target> exist already
SetupBranchCheck ==
    /\ pc = "setup_branch_check"
    /\ \E loc \in SUBSET BranchNames, rem \in BOOLEAN :
        LET branch_exists == BaseBranch \in loc \/ rem
        IN /\ BaseBranch \in loc => ~rem
           /\ local_branches' = loc
           /\ remote_has_base' = rem
           /\ Ran({<<"branch --list", 0>>}
                    \cup (IF BaseBranch \in loc THEN {} ELSE {<<"ls-remote --heads", 0>>}))
           /\ new_branch_name' = BaseBranch
           /\ pc' = IF branch_exists THEN "setup_branch_prompt" ELSE "setup_switch"
    /\ UNCHANGED <<args, prep, fs, flags, branch_ref, new_branch_in_worktree,
                   wt_branch, branch_choice,
                   choice, push_failed, exc, exit_code>>
    /\ UNCHANGED done
    /\ UNCHANGED others

\* mutant: the removal leaves the registration in place
worktree_removed_never(st, registered) == registered

\* `git worktree remove --force <path>`: the registration is dropped when the
\* command succeeds (lines 452-456 and 944-948)
worktree_removed(st, registered) == IF st = 0 THEN FALSE ELSE registered

\* _setup_worktree, lines 410-461: replace / unique suffix / abort
SetupBranchPrompt ==
    /\ pc = "setup_branch_prompt"
    /\ \E c \in {"1", "2", "3"}, st \in {0, 1}, now \in Clock :
        /\ branch_choice' = c
        /\ c # "2" => now = 1
        /\ c = "2" => st = 0
        /\ (c = "1" /\ BaseBranch \notin local_branches) => st = 1
        /\ IF c = "1"
           THEN /\ Ran({<<"branch -D", st>>})
                /\ local_branches' =
                     IF st = 0 THEN local_branches \ {BaseBranch} ELSE local_branches
                /\ new_branch_name' = BaseBranch
                /\ pc' = "setup_switch"
                /\ UNCHANGED <<dir_exists, wt_registered, wt_content, exc>>
           ELSE IF c = "2"
           THEN /\ new_branch_name' = Suffixed(now)
                /\ pc' = "setup_switch"
                /\ UNCHANGED <<cmds, local_branches, dir_exists, wt_registered,
                               wt_content, exc>>
           ELSE /\ Ran({<<"worktree remove --force", st>>})
                /\ wt_registered' = worktree_removed(st, wt_registered)
                /\ dir_exists' = FALSE
                /\ wt_content' = "none"
                /\ Raise("Exit", 1, "branch_abort")
                /\ UNCHANGED <<local_branches, new_branch_name>>
    /\ UNCHANGED <<args, prep, patch_exists, patch_size, flags, branch_ref,
                   remote_has_base, new_branch_in_worktree, wt_branch, choice, push_failed, exit_code>>
    /\ UNCHANGED done
    /\ UNCHANGED others

\* mutant: the active branch is not compared with the expected one
branch_verified_always(current, expected) == TRUE

\* _setup_worktree, line 485: the active branch must be the expected one
branch_verified(current, expected) == current = expected

\* target_branch.replace('/', '_')
replace_slash(s) == [i \in 1..Len(s) |-> IF s[i] = "/" THEN "_" ELSE s[i]]

\* line 383: f"feature/{jira_id}-{target_branch.replace('/', '_')}"
base_branch_name(jira, tgt) ==
    <<"f", "e", "a", "t", "u", "r", "e", "/">> \o jira \o <<"-">> \o replace_slash(tgt)

\* _setup_worktree, lines 463-494: `git switch -c`, one retry with a timestamp
\* name when git says the branch already exists, then the verification; on
\* return apply marks the worktree for cleanup (line 1125)
SetupSwitch ==
    /\ pc = "setup_switch"
    /\ \E st \in {0, 1}, retry_st \in {0, 1}, now \in Clock, show_st \in {0, 1},
          on_branch \in BOOLEAN :
        LET taken == new_branch_name \in local_branches
            second == Suffixed(now)
            retried == taken /\ second \notin local_branches /\ retry_st = 0
            created == IF taken THEN retried ELSE st = 0
            name == IF taken THEN second ELSE new_branch_name
            ran == IF taken
                   THEN {<<"switch -c", 1>>,
                         <<"switch -c retry", IF retried THEN 0 ELSE 1>>}
                   ELSE {<<"switch -c", st>>}
            \* what `git branch --show-current` prints: the new branch, or
            \* something else (a hook moved HEAD)
            current == IF on_branch THEN name ELSE NoBranch
        IN /\ now >= new_branch_name.suffix
           /\ (~created \/ show_st = 1) => on_branch
           /\ IF ~created
              THEN /\ Ran(ran)
                   /\ Raise("ShellCommandError", 0, "git_switch")
                   /\ UNCHANGED <<local_branches, new_branch_name, wt_branch,
                                  new_branch_in_worktree, cleanup_worktree_on_exit>>
              ELSE /\ local_branches' = local_branches \cup {name}
                   /\ new_branch_name' = name
                   /\ wt_branch' = current
                   /\ Ran(ran \cup {<<"branch --show-current", show_st>>})
                   /\ IF run_command_raises(TRUE, show_st, TRUE)
                      THEN /\ Raise("ShellCommandError", 0, "show_current")
                           /\ UNCHANGED <<new_branch_in_worktree, cleanup_worktree_on_exit>>
                      ELSE IF ~branch_verified(current, name)
                      THEN /\ Raise("Exit", 1, "branch_mismatch")
                           /\ UNCHANGED <<new_branch_in_worktree, cleanup_worktree_on_exit>>
                      ELSE /\ new_branch_in_worktree' = name
                           /\ cleanup_worktree_on_exit' = TRUE
                           /\ pc' = "apply_check"
                           /\ UNCHANGED exc
    /\ UNCHANGED <<args, prep, fs, patch_status, worktree_path_set, keep_worktree,
                   WORKTREE_SHOULD_BE_KEPT, branch_ref, remote_has_base, branch_choice,
                   choice, push_failed, exit_code>>
    /\ UNCHANGED done
    /\ UNCHANGED others

\* mutant: a resolved conflict goes on to commit and push
commits_after_resolve(status) == status \in {"APPLIED_CLEANLY", "USER_WILL_RESOLVE"}

\* apply, lines 1141-1171: what the match on patch_status does
commits_after(status) == status = "APPLIED_CLEANLY"
keeps_after(status) == status = "USER_WILL_RESOLVE"

\* _apply_patch_and_handle_conflicts returns `status` with the global flag at
\* global_keep; apply records it and dispatches (lines 1130-1171)
Return(status, global_keep) ==
    /\ patch_status' = status
    /\ worktree_path_set' = TRUE
    /\ IF commits_after(status)
       THEN /\ pc' = "commit"
            /\ WORKTREE_SHOULD_BE_KEPT' = global_keep
            /\ UNCHANGED <<cleanup_worktree_on_exit, keep_worktree, exc>>
       ELSE IF keeps_after(status)
       THEN /\ cleanup_worktree_on_exit' = FALSE
            /\ keep_worktree' = TRUE
            /\ WORKTREE_SHOULD_BE_KEPT' = TRUE
            /\ pc' = "finally"
            /\ UNCHANGED exc
       ELSE /\ WORKTREE_SHOULD_BE_KEPT' = global_keep
            /\ Raise("Exit", 1, "conflict_abort")
            /\ UNCHANGED <<cleanup_worktree_on_exit, keep_worktree>>

\* lines 582-592: the dry run and the real apply both succeeded
applied_cleanly(check_st, apply_st) ==
    ~run_command_raises(TRUE, check_st, TRUE) /\ ~run_command_raises(TRUE, apply_st, TRUE)

\* _apply_patch_and_handle_conflicts, lines 573-592: `git apply --check`, then
\* `git apply`; gone is the worktree directory having vanished (line 576)
ApplyCheck ==
    /\ pc = "apply_check"
    /\ \E gone \in BOOLEAN, check_st \in {0, 1}, apply_st \in {0, 1} :
        /\ gone => (check_st = 0 /\ apply_st = 0)
        /\ check_st = 1 => apply_st = 0
        /\ IF gone
           THEN /\ dir_exists' = FALSE
                /\ Return("ABORTED_CONFLICT", WORKTREE_SHOULD_BE_KEPT)
                /\ UNCHANGED <<cmds, wt_content>>
           ELSE /\ Ran({<<"apply --check", check_st>>}
                         \cup (IF check_st = 0 THEN {<<"apply", apply_st>>} ELSE {}))
                /\ UNCHANGED dir_exists
                /\ IF applied_cleanly(check_st, apply_st)
                   THEN /\ wt_content' = "patched"
                        /\ Return("APPLIED_CLEANLY", WORKTREE_SHOULD_BE_KEPT)
                   ELSE /\ pc' = "pre_3way"
                        /\ UNCHANGED <<wt_content, flags, exc>>
    /\ UNCHANGED <<args, prep, patch_exists, patch_size, wt_registered, br,
                   choice, push_failed, exit_code>>
    /\ UNCHANGED done
    /\ UNCHANGED others

\* lines 593-618: best-effort `git apply --3way` before the menu
Pre3way ==
    /\ pc = "pre_3way"
    /\ \E effect \in {"merged", "conflict", "target"} :
        /\ Ran({<<"apply --3way pre", 0>>, <<"diff --name-only", 0>>})
        /\ wt_content' = effect
    /\ pc' = "menu"
    /\ UNCHANGED <<args, prep, patch_exists, patch_size, dir_exists, wt_registered,
                   flags, br, choice, push_failed, exc, exit_code>>
    /\ UNCHANGED done
    /\ UNCHANGED others

\* lines 664-672 and the non-blocking part of each choice: 3 and 4 set the
\* global flag and check the directory (lines 758-766, 794-802), 5 aborts
Menu ==
    /\ pc = "menu"
    /\ \E c \in {"1", "2", "3", "4", "5"}, gone \in BOOLEAN :
        /\ c \notin {"3", "4"} => ~gone
        /\ choice' = c
        /\ IF c = "1"
           THEN pc' = "reject" /\ UNCHANGED <<dir_exists, flags, exc>>
           ELSE IF c = "2"
           THEN pc' = "threeway" /\ UNCHANGED <<dir_exists, flags, exc>>
           ELSE IF c \in {"3", "4"}
           THEN IF gone
                THEN /\ dir_exists' = FALSE
                     /\ Return("ABORTED_CONFLICT", TRUE)
                ELSE /\ WORKTREE_SHOULD_BE_KEPT' = TRUE
                     /\ pc' = "editor"
                     /\ UNCHANGED <<dir_exists, cleanup_worktree_on_exit, patch_status,
                                    worktree_path_set, keep_worktree, exc>>
           ELSE /\ Return("ABORTED_CONFLICT", WORKTREE_SHOULD_BE_KEPT)
                /\ UNCHANGED dir_exists
    /\ UNCHANGED <<args, prep, patch_exists, patch_size, wt_registered, wt_content,
                   br, push_failed, exit_code, cmds>>
    /\ UNCHANGED done
    /\ UNCHANGED others

\* choice 1, lines 684-697: `git apply --reject` with check=True
ApplyReject ==
    /\ pc = "reject"
    /\ \E st \in {0, 1} :
        /\ Ran({<<"apply --reject", st>>})
        /\ wt_content' = IF st = 0 THEN "patched" ELSE "rejects"
        /\ IF run_command_raises(TRUE, st, TRUE)
           THEN Raise("ShellCommandError", 0, "apply_reject") /\ UNCHANGED flags
           ELSE Return("USER_WILL_RESOLVE", WORKTREE_SHOULD_BE_KEPT)
    /\ UNCHANGED <<args, prep, patch_exists, patch_size, dir_exists, wt_registered,
                   br, choice, push_failed, exit_code>>
    /\ UNCHANGED done
    /\ UNCHANGED others

\* mutant: a 3-way merge that leaves no conflict counts as a clean apply
threeway_status_clean(st, has_conflicts) ==
    IF st = 0 /\ ~has_conflicts THEN "APPLIED_CLEANLY" ELSE "USER_WILL_RESOLVE"

\* choice 2: the status returned at line 739 (command succeeded, conflicts
\* or not) and at line 751 (command failed)
threeway_status(st, has_conflicts) ==
    IF run_command_raises(TRUE, st, TRUE) THEN "USER_WILL_RESOLVE"
    ELSE "USER_WILL_RESOLVE"

\* choice 2, lines 698-751: `git apply --3way`; every outcome returns
\* USER_WILL_RESOLVE
Apply3way ==
    /\ pc = "threeway"
    /\ \E st \in {0, 1}, marks \in BOOLEAN :
        /\ Ran({<<"apply --3way", st>>}
                 \cup (IF st = 0 THEN {<<"diff --name-only", 0>>} ELSE {}))
        /\ wt_content' = IF marks THEN "conflict"
                         ELSE IF st = 0 THEN "merged" ELSE wt_content
        /\ Return(threeway_status(st, marks), WORKTREE_SHOULD_BE_KEPT)
    /\ UNCHANGED <<args, prep, patch_exists, patch_size, dir_exists, wt_registered,
                   br, choice, push_failed, exit_code>>
    /\ UNCHANGED done
    /\ UNCHANGED others

\* mutant: an editor that could not be launched aborts the conflict handling
editor_status_abort(found) ==
    IF found THEN "USER_WILL_RESOLVE" ELSE "ABORTED_CONFLICT"

\* choices 3 and 4: _open_external_editor returns True whether or not the
\* command was found, and both branches on it return USER_WILL_RESOLVE
\* (lines 767-787, 803-824)
editor_status(found) ==
    IF run_command_raises(FALSE, 0, found) THEN "USER_WILL_RESOLVE"
    ELSE "USER_WILL_RESOLVE"

\* choices 3 and 4, _open_external_editor (lines 530-562): always True
OpenEditor ==
    /\ pc = "editor"
    /\ \E found \in BOOLEAN :
        /\ Ran({<<"editor", IF run_command_raises(FALSE, 0, found) THEN 1 ELSE 0>>})
        /\ Return(editor_status(found), WORKTREE_SHOULD_BE_KEPT)
    /\ UNCHANGED <<args, prep, fs, br, choice, push_failed, exit_code>>
    /\ UNCHANGED done
    /\ UNCHANGED others

\* _commit_and_push_changes, lines 504-505: `git add -A`, `git commit -m`
CommitChanges ==
    /\ pc = "commit"
    /\ \E add_st \in {0, 1}, commit_st \in {0, 1} :
        /\ add_st = 1 => commit_st = 0
        /\ Ran({<<"add -A", add_st>>}
                 \cup (IF add_st = 0 THEN {<<"commit", commit_st>>} ELSE {}))
        /\ IF run_command_raises(TRUE, add_st, TRUE)
           THEN Raise("ShellCommandError", 0, "git_add")
           ELSE IF run_command_raises(TRUE, commit_st, TRUE)
           THEN Raise("ShellCommandError", 0, "git_commit")
           ELSE pc' = "push" /\ UNCHANGED exc
        /\ worktree_commits' =
             IF add_st = 0 /\ commit_st = 0
             THEN Append(worktree_commits,
                         [branch |-> wt_branch, message |-> final_commit_message])
             ELSE worktree_commits
    /\ UNCHANGED <<args, prep, fs, flags, br, choice, push_failed, exit_code,
                   push_branch, cwd, continue_anyway, panel, proceed_answer>>
    /\ UNCHANGED others

\* _commit_and_push_changes, lines 511-525: `git push origin <branch>`
Push ==
    /\ pc = "push"
    /\ \E st \in {0, 1} :
        /\ Ran({<<"push origin", st>>})
        /\ push_failed' = run_command_raises(TRUE, st, TRUE)
        /\ pc' = IF run_command_raises(TRUE, st, TRUE) THEN "push_confirm" ELSE "finally"
        /\ panel' = IF run_command_raises(TRUE, st, TRUE) THEN panel ELSE "Success"
    /\ push_branch' = new_branch_in_worktree
    /\ UNCHANGED <<args, prep, fs, flags, br, choice, exc, exit_code,
                   worktree_commits, cwd, continue_anyway, proceed_answer>>
    /\ UNCHANGED others

\* lines 526-527: `if not typer.confirm("Continue anyway?"): raise`
push_error_reraised(yes) == ~yes

\* line 526: typer.confirm("Continue anyway?"); no re-raises the push error,
\* yes returns to apply, which prints the success panel (lines 1148-1155)
PushConfirm ==
    /\ pc = "push_confirm"
    /\ \E yes \in BOOLEAN :
        /\ continue_anyway' = IF yes THEN "yes" ELSE "no"
        /\ IF push_error_reraised(yes)
           THEN Raise("ShellCommandError", 0, "push_declined") /\ UNCHANGED panel
           ELSE pc' = "finally" /\ panel' = "Success" /\ UNCHANGED exc
    /\ UNCHANGED <<args, prep, fs, flags, br, choice, push_failed, exit_code, cmds,
                   worktree_commits, push_branch, cwd, proceed_answer>>
    /\ UNCHANGED others

\* the positions of the try block of apply (lines 1036-1179)
InTry ==
    {"resolve", "prepare_ticket", "prepare_message", "prepare_patch_file",
     "prepare_return", "confirm", "create_patch",
     "setup_fetch", "setup_add", "setup_branch_check", "setup_branch_prompt",
     "setup_switch", "apply_check", "pre_3way", "menu", "reject", "threeway",
     "editor", "commit", "push", "push_confirm"}

\* Ctrl+C while the try block waits on a prompt or a subprocess (line 1210)
KeyboardInterrupt ==
    /\ pc \in InTry
    /\ Raise("KeyboardInterrupt", 0, "interrupt")
    /\ UNCHANGED <<args, prep, fs, flags, br, choice, push_failed, exit_code, cmds>>
    /\ UNCHANGED done
    /\ UNCHANGED others

\* the panel the except clause taken prints (lines 1181-1227); KeyboardInterrupt
\* prints a line and no panel
panel_of(e, current) ==
    IF e.type = "ShellCommandError" THEN "Shell Command Error"
    ELSE IF e.type = "CalledProcessError" THEN "Git Command Error"
    ELSE IF e.type = "Exit" THEN "Unexpected Error"
    ELSE current

\* the except clauses and the finally block of apply, lines 1181-1293
Finally ==
    /\ pc = "finally"
    /\ \E rm_st \in {0, 1} :
        LET nothing == ~op_set /\ ~worktree_path_set
            cleanup == /\ ~nothing
                       /\ should_cleanup_worktree(op_set, keep_worktree,
                                                  WORKTREE_SHOULD_BE_KEPT)
            remove == cleanup /\ cleanup_worktree_on_exit /\ dir_exists
        IN /\ ~remove => rm_st = 0
           /\ IF remove THEN Ran({<<"worktree remove --force", rm_st>>})
              ELSE UNCHANGED cmds
           /\ wt_registered' = IF remove THEN worktree_removed(rm_st, wt_registered)
                              ELSE wt_registered
           /\ dir_exists' = IF cleanup THEN FALSE ELSE dir_exists
           /\ wt_content' = IF cleanup THEN "none" ELSE wt_content
           /\ patch_exists' =
                IF ~nothing /\ op_set /\ patch_exists /\ should_delete_patch(patch_status)
                THEN FALSE ELSE patch_exists
    /\ cwd' = IF cwd # "original_dir" THEN "original_dir" ELSE cwd
    /\ exit_code' = exit_code_of(exc)
    /\ pc' = "exited"
    /\ panel' = panel_of(exc, panel)
    /\ UNCHANGED <<args, prep, patch_size, flags, br, choice, push_failed, exc,
                   worktree_commits, push_branch, continue_anyway, proceed_answer>>
    /\ UNCHANGED others

Next ==
    \/ GetRepoRoot
    \/ ResolveSource
    \/ PrepareTicket
    \/ PrepareMessage
    \/ PreparePatchFile
    \/ PrepareReturn
    \/ Confirm
    \/ CreatePatch
    \/ SetupFetch
    \/ SetupAdd
    \/ SetupBranchCheck
    \/ SetupBranchPrompt
    \/ SetupSwitch
    \/ ApplyCheck
    \/ Pre3way
    \/ Menu
    \/ ApplyReject
    \/ Apply3way
    \/ OpenEditor
    \/ CommitChanges
    \/ Push
    \/ PushConfirm
    \/ KeyboardInterrupt
    \/ Finally

Spec == Init /\ [][Next]_vars

\* ================================================================ synapse.py
\* Config.get_effective_config: list items and scalars are numbers, None is 0,
\* a dict is a function on its keys
MaxItem == 2
MaxListLen == 2
Items == 1..MaxItem
Lists == SeqsUpTo(Items, MaxListLen)
ShortLists == SeqsUpTo(Items, 1)
Range(l) == {l[i] : i \in 1..Len(l)}
EmptyDict == [k \in {} |-> 0]

\* sorted(list(S))
RECURSIVE sorted(_)
sorted(S) ==
    IF S = {} THEN <<>>
    ELSE LET m == CHOOSE x \in S : \A y \in S : x <= y
         IN <<m>> \o sorted(S \ {m})

\* sorted(list(set(a + b)))
union_sorted(a, b) == sorted(Range(a \o b))

\* d1.copy() followed by update(d2)
dict_update(d1, d2) ==
    [k \in DOMAIN d1 \cup DOMAIN d2 |-> IF k \in DOMAIN d2 THEN d2[k] ELSE d1[k]]

\* values of the free-form settings mapping (Dict[str, Any])
Scalar(n) == [kind |-> "scalar", scalar |-> n, items |-> <<>>, entries |-> EmptyDict]
ListVal(l) == [kind |-> "list", scalar |-> 0, items |-> l, entries |-> EmptyDict]
DictVal(d) == [kind |-> "dict", scalar |-> 0, items |-> <<>>, entries |-> d]

\* AgentSettings._merge_dicts
RECURSIVE _merge_dicts(_, _)
_merge_dicts(d1, d2) ==
    [k \in DOMAIN d1 \cup DOMAIN d2 |->
        IF k \notin DOMAIN d2 THEN d1[k]
        ELSE IF k \in DOMAIN d1 /\ d1[k].kind = "dict" /\ d2[k].kind = "dict"
        THEN DictVal(_merge_dicts(d1[k].entries, d2[k].entries))
        ELSE d2[k]]

\* EnvSettings.merge_with
EnvSettings_merge_with(self, other) ==
    [vars |-> dict_update(self.vars, other.vars),
     allow |-> union_sorted(self.allow, other.allow),
     block |-> union_sorted(self.block, other.block)]

\* NetworkSettings.merge_with
NetworkSettings_merge_with(self, other) ==
    [proxy |-> IF other.proxy # 0 THEN other.proxy ELSE self.proxy]

\* the loop over other.commands shared by both merge_with methods, and
\* CommandGroup.merge_with
RECURSIVE CommandGroup_merge_with(_, _)
CommandGroup_merge_with(self, other) ==
    [allow |-> union_sorted(self.allow, other.allow),
     deny |-> union_sorted(self.deny, other.deny),
     commands |->
        [t \in DOMAIN self.commands \cup DOMAIN other.commands |->
            IF t \notin DOMAIN other.commands THEN self.commands[t]
            ELSE IF t \in DOMAIN self.commands
            THEN CommandGroup_merge_with(self.commands[t], other.commands[t])
            ELSE other.commands[t]]]

\* AgentSettings.merge_with
AgentSettings_merge_with(self, other) ==
    [allow |-> union_sorted(self.allow, other.allow),
     deny |-> union_sorted(self.deny, other.deny),
     commands |->
        [t \in DOMAIN self.commands \cup DOMAIN other.commands |->
            IF t \notin DOMAIN other.commands THEN self.commands[t]
            ELSE IF t \in DOMAIN self.commands
            THEN CommandGroup_merge_with(self.commands[t], other.commands[t])
            ELSE other.commands[t]],
     hooks |-> self.hooks \o other.hooks,
     env |-> EnvSettings_merge_with(self.env, other.env),
     network |-> NetworkSettings_merge_with(self.network, other.network),
     settings |-> _merge_dicts(self.settings, other.settings)]

\* AgentSettings(): every field at its default
DefaultSettings ==
    [allow |-> <<>>, deny |-> <<>>, commands |-> EmptyDict, hooks |-> <<>>,
     env |-> [vars |-> EmptyDict, allow |-> <<>>, block |-> <<>>],
     network |-> [proxy |-> 0], settings |-> EmptyDict]

LeafValues == {Scalar(n) : n \in Items} \cup {ListVal(l) : l \in Lists}
SettingValues == LeafValues \cup {DictVal([k \in {"n"} |-> v]) : v \in LeafValues}
LeafGroups == {[allow |-> l, deny |-> <<>>, commands |-> EmptyDict] : l \in ShortLists}
Groups ==
    LeafGroups
        \cup {[allow |-> <<>>, deny |-> l, commands |-> [t \in {"push"} |-> g]] :
                l \in ShortLists, g \in LeafGroups}

\* the configurations a file can hold, one field away from the default
AgentInputs ==
    {[DefaultSettings EXCEPT !.allow = l] : l \in Lists}
        \cup {[DefaultSettings EXCEPT !.deny = l] : l \in Lists}
        \cup {[DefaultSettings EXCEPT !.hooks = l] : l \in Lists}
        \cup {[DefaultSettings EXCEPT !.network.proxy = n] : n \in Items}
        \cup {[DefaultSettings EXCEPT !.env.vars = [k \in {"K"} |-> n]] : n \in Items}
        \cup {[DefaultSettings EXCEPT !.env.allow = l] : l \in Lists}
        \cup {[DefaultSettings EXCEPT !.env.block = l] : l \in Lists}
        \cup {[DefaultSettings EXCEPT !.settings = [k \in {"k"} |-> v]] : v \in SettingValues}
        \cup {[DefaultSettings EXCEPT !.commands = [t \in {"git"} |-> g]] : g \in Groups}

MergeInit ==
    /\ cfg_pc = "loaded"
    /\ common \in AgentInputs
    /\ specific \in AgentInputs
    /\ effective = <<>>
    /\ GitIdle
    /\ CwIdle

\* Config.get_effective_config: self.common.merge_with(specific)
GetEffectiveConfig ==
    /\ cfg_pc = "loaded"
    /\ effective' = AgentSettings_merge_with(common, specific)
    /\ cfg_pc' = "merged"
    /\ UNCHANGED <<common, specific, gitvars, cwvars>>

MergeNext == GetEffectiveConfig

SpecMerge == MergeInit /\ [][MergeNext]_vars

\* ====================================================== cleanup_worktrees.py
\* main: a path and a ref are sequences of tokens, None is "", one entry of
\* `git worktree list --porcelain` is a run of tagged lines
MaxWorktrees == 2
MAIN_BRANCH == "main"
NoPr == [state |-> "None"]
PrStates == {"MERGED", "CLOSED", "OPEN"}

endswith(s, suffix) == Len(s) > 0 /\ s[Len(s)] = suffix
startswith(s, prefix) == Len(s) > 0 /\ s[1] = prefix

WtLine(path) == [tag |-> "worktree", val |-> path]
HeadLine == [tag |-> "HEAD", val |-> <<"sha">>]
BranchLine(ref) == [tag |-> "branch", val |-> ref]
BareLine == [tag |-> "bare", val |-> <<>>]
DetachedLine == [tag |-> "detached", val |-> <<>>]

\* what git can print for one worktree
PorcelainEntries ==
    { <<WtLine(<<"/repo/", ".bare">>), BareLine>>,
      <<WtLine(<<"/repo/", "main">>), HeadLine, BranchLine(<<"refs/heads/", "main">>)>>,
      <<WtLine(<<"/repo/", "f1">>), HeadLine, BranchLine(<<"refs/heads/", "f1">>)>>,
      <<WtLine(<<"/repo/", "f2">>), HeadLine, BranchLine(<<"refs/heads/", "f2">>)>>,
      <<WtLine(<<"/repo/", "f3", ".bare">>), HeadLine, BranchLine(<<"refs/heads/", "f3">>)>>,
      <<WtLine(<<"/repo/", "d">>), HeadLine, DetachedLine>>,
      <<WtLine(<<"/repo/", "b">>), HeadLine, BranchLine(<<"refs/bisect/", "bad">>)>> }

RECURSIVE Flatten(_)
Flatten(ss) == IF ss = <<>> THEN <<>> ELSE Head(ss) \o Flatten(Tail(ss))

\* the outputs of `git worktree list --porcelain`: each worktree once
PorcelainOutputs ==
    { Flatten(es) : es \in { e \in SeqsUpTo(PorcelainEntries, MaxWorktrees) :
                               \A i, j \in 1..Len(e) : i # j => e[i] # e[j] } }

\* run_command: stdout when the command exits with 0, "" otherwise
run_command(status, stdout, empty) == IF status = 0 THEN stdout ELSE empty

\* get_worktrees, lines 39-57: the loop over the lines; current_wt is <<>>
\* for the empty dict and <<wt>> otherwise
RECURSIVE parse_lines(_, _, _)
parse_lines(lines, current_wt, wts) ==
    IF lines = <<>>
    THEN wts \o current_wt
    ELSE LET line == Head(lines)
             rest == Tail(lines)
         IN IF line.tag = "worktree"
            THEN parse_lines(rest,
                             <<[path |-> line.val, commit |-> "", branch |-> ""]>>,
                             wts \o current_wt)
            ELSE IF current_wt = <<>>
            THEN parse_lines(rest, current_wt, wts)
            ELSE IF line.tag = "HEAD"
            THEN parse_lines(rest, <<[current_wt[1] EXCEPT !.commit = line.val[1]]>>, wts)
            ELSE IF line.tag = "branch"
            THEN IF startswith(line.val, "refs/heads/")
                 THEN parse_lines(rest, <<[current_wt[1] EXCEPT !.branch = line.val[2]]>>, wts)
                 ELSE parse_lines(rest, current_wt, wts)
            ELSE IF line.tag = "bare"
            THEN parse_lines(rest, <<[current_wt[1] EXCEPT !.branch = ""]>>, wts)
            ELSE parse_lines(rest, current_wt, wts)

get_worktrees(status, stdout) ==
    LET output == run_command(status, stdout, <<>>)
    IN IF output = <<>> THEN <<>> ELSE parse_lines(output, <<>>, <<>>)

\* what `gh pr list --json ... --limit 1` can print: text that is not JSON, or
\* a list of at most one PR
GhStdouts ==
    {[parses |-> FALSE, data |-> <<>>], [parses |-> TRUE, data |-> <<>>]}
        \cup {[parses |-> TRUE, data |-> <<[state |-> st]>>] : st \in PrStates}
GhResults == {[status |-> st, stdout |-> o] : st \in {0, 1}, o \in GhStdouts}
NotLookedUp == [status |-> -1, stdout |-> [parses |-> FALSE, data |-> <<>>]]

\* get_pr_status, lines 69-74
get_pr_status(res) ==
    LET output == run_command(res.status, res.stdout, [parses |-> FALSE, data |-> <<>>])
    IN IF ~output.parses THEN NoPr
       ELSE IF output.data # <<>> THEN output.data[1] ELSE NoPr

\* line 97
kept_without_lookup(wt) ==
    endswith(wt.path, ".bare") \/ wt.branch = MAIN_BRANCH \/ wt.branch = ""

pr_merged_any(pr) == pr # NoPr
\* line 103
pr_merged(pr) == pr # NoPr /\ pr.state = "MERGED"

\* lines 103-110
classify(wt, pr) ==
    IF pr_merged(pr) THEN [list |-> "to_delete", reason |-> "Merged", pr |-> pr]
    ELSE IF pr # NoPr /\ pr.state = "CLOSED"
    THEN [list |-> "kept", reason |-> "Closed (Unmerged)", pr |-> pr]
    ELSE IF pr # NoPr THEN [list |-> "kept", reason |-> "Open", pr |-> pr]
    ELSE [list |-> "kept", reason |-> "No PR Found", pr |-> NoPr]

CleanupInit ==
    /\ cw_pc = "start"
    /\ root_ok \in BOOLEAN
    /\ force \in BOOLEAN
    /\ worktrees = <<>>
    /\ lookups = <<>>
    /\ scan_i = 0
    /\ to_delete = <<>>
    /\ kept = <<>>
    /\ should_delete = FALSE
    /\ delete_i = 0
    /\ removed = {}
    /\ branches_deleted = {}
    /\ confirm_answer = "none"
    /\ GitIdle
    /\ CfgIdle

\* lines 79-81
CheckRoot ==
    /\ cw_pc = "start"
    /\ cw_pc' = IF root_ok THEN "list" ELSE "exit1"
    /\ UNCHANGED <<root_ok, force, worktrees, lookups, scan_i, to_delete, kept,
                   should_delete, delete_i, removed, branches_deleted, confirm_answer>>
    /\ UNCHANGED <<gitvars, cfgvars>>

\* line 87
GetWorktrees ==
    /\ cw_pc = "list"
    /\ \E status \in {0, 1}, stdout \in PorcelainOutputs :
        /\ worktrees' = get_worktrees(status, stdout)
        /\ cw_pc' = IF worktrees' = <<>> THEN "decide" ELSE "scan"
    /\ scan_i' = 1
    /\ UNCHANGED <<root_ok, force, lookups, to_delete, kept,
                   should_delete, delete_i, removed, branches_deleted, confirm_answer>>
    /\ UNCHANGED <<gitvars, cfgvars>>

\* lines 90-110: one iteration of the scan
ScanWorktree ==
    /\ cw_pc = "scan"
    /\ LET wt == worktrees[scan_i]
       IN IF kept_without_lookup(wt)
          THEN /\ kept' = Append(kept, [wt |-> wt, reason |-> "Main/Bare/Detached", pr |-> NoPr])
               /\ lookups' = Append(lookups, NotLookedUp)
               /\ UNCHANGED to_delete
          ELSE \E res \in GhResults :
                LET pr == get_pr_status(res)
                    c == classify(wt, pr)
                    item == [wt |-> wt, reason |-> c.reason, pr |-> c.pr]
                IN /\ lookups' = Append(lookups, res)
                   /\ to_delete' = IF c.list = "to_delete" THEN Append(to_delete, item)
                                   ELSE to_delete
                   /\ kept' = IF c.list = "kept" THEN Append(kept, item) ELSE kept
    /\ scan_i' = scan_i + 1
    /\ cw_pc' = IF scan_i = Len(worktrees) THEN "decide" ELSE "scan"
    /\ UNCHANGED <<root_ok, force, worktrees, should_delete, delete_i, removed,
                   branches_deleted, confirm_answer>>
    /\ UNCHANGED <<gitvars, cfgvars>>

\* lines 145-153 and 167
AskDeletion ==
    /\ cw_pc = "decide"
    /\ IF to_delete = <<>>
       THEN /\ cw_pc' = "done"
            /\ UNCHANGED <<should_delete, confirm_answer, delete_i>>
       ELSE \E ask \in {"yes", "no"} :
            /\ confirm_answer' = IF force THEN "none" ELSE ask
            /\ should_delete' = (force \/ ask = "yes")
            /\ cw_pc' = IF should_delete' THEN "delete" ELSE "done"
            /\ delete_i' = 1
    /\ UNCHANGED <<root_ok, force, worktrees, lookups, scan_i, to_delete, kept,
                   removed, branches_deleted>>
    /\ UNCHANGED <<gitvars, cfgvars>>

\* lines 155-163: one iteration of the deletion; run_command hides a failure
DeleteWorktree ==
    /\ cw_pc = "delete"
    /\ LET wt == to_delete[delete_i].wt
       IN \E rm_status \in {0, 1}, del_status \in {0, 1} :
            /\ removed' = IF rm_status = 0 THEN removed \cup {wt.path} ELSE removed
            /\ branches_deleted' = IF wt.branch # "" /\ del_status = 0
                                   THEN branches_deleted \cup {wt.branch}
                                   ELSE branches_deleted
    /\ delete_i' = delete_i + 1
    /\ cw_pc' = IF delete_i = Len(to_delete) THEN "done" ELSE "delete"
    /\ UNCHANGED <<root_ok, force, worktrees, lookups, scan_i, to_delete, kept,
                   should_delete, confirm_answer>>
    /\ UNCHANGED <<gitvars, cfgvars>>

CleanupNext ==
    \/ CheckRoot
    \/ GetWorktrees
    \/ ScanWorktree
    \/ AskDeletion
    \/ DeleteWorktree

SpecCleanup == CleanupInit /\ [][CleanupNext]_vars

\* ------------------------------------------------------------------ claims
Exited == pc = "exited"
RanCmd(c) == \E st \in {0, 1} : <<c, st>> \in cmds
Stopped == pc \in {"finally", "exited"}

\* the pattern [A-Z]+-\d+ stated on a whole word, and the leftmost, longest
\* occurrence of it in a text
FullMatch(w) ==
    \E d \in 2..(Len(w) - 1) :
        /\ w[d] = "-"
        /\ \A q \in 1..(d - 1) : IsUpper(w[q])
        /\ \A q \in (d + 1)..Len(w) : IsDigit(w[q])
MatchSpans(s) ==
    {sp \in (1..Len(s)) \X (1..Len(s)) : sp[1] <= sp[2] /\ FullMatch(SubSeq(s, sp[1], sp[2]))}
HasTicket(s) == MatchSpans(s) # {}
FirstMatch(s) ==
    LET sp == CHOOSE a \in MatchSpans(s) :
                \A b \in MatchSpans(s) : a[1] < b[1] \/ (a[1] = b[1] /\ a[2] >= b[2])
    IN SubSeq(s, sp[1], sp[2])

\* the commit subjects the preparation got from the log of the diff range
LoggedCommits == IF git_log = <<>> THEN <<>> ELSE git_log[1].out

\* C1: after option 1 (reject files), whatever `git apply --reject` returned,
\* the run ends with the worktree on disk and registered, nothing committed
\* or pushed, and the patch file kept.
C1_RejectKeepsWorktreeAndPatch ==
    (Exited /\ choice = "1" /\ RanCmd("apply --reject"))
        => /\ dir_exists
           /\ wt_registered
           /\ ~RanCmd("commit")
           /\ ~RanCmd("push origin")
           /\ patch_exists

FatalExitSites == {"same_ref", "no_ticket", "worktree_add", "worktree_empty"}

\* C2: a run that ended in source = target, no ticket ID, a worktree creation
\* failure or abort at the conflict menu has process exit code 1.
C2_FatalExitCodeOne ==
    (/\ Exited
     /\ exc.type = "Exit"
     /\ \/ exc.site \in FatalExitSites
        \/ (exc.site = "conflict_abort" /\ choice = "5"))
        => exit_code = 1

\* C3: a run in which a ShellCommandError reached the top level of apply has
\* process exit code 1.
C3_ShellErrorExitCodeOne ==
    (Exited /\ exc.type = "ShellCommandError") => exit_code = 1

\* C4: when the resolved source equals the target, nothing is ever created
\* (patch file, temporary directory, worktree) and the only commands run are
\* the repo-root and current-branch queries.
C4_SameRefNoMutation ==
    (resolved_source_ref_name = target)
        => /\ Stopped
           /\ ~op_set
           /\ ~patch_exists
           /\ ~dir_exists
           /\ ~wt_registered
           /\ cmds \subseteq {<<"rev-parse --show-toplevel", 0>>,
                              <<"rev-parse --abbrev-ref HEAD", 0>>}
C4_Witness ==
    Exited /\ resolved_source_ref_name = target /\ exc.site = "same_ref"

\* C5: once the diff produced a zero-byte patch, `git worktree add` is never
\* run, the patch file and the temporary directory are gone, and the process
\* exit code is 0.
EmptyPatchMade == <<"diff --output", 0>> \in cmds /\ patch_size = 0
C5_EmptyPatchNoWorktree ==
    EmptyPatchMade
        => /\ Stopped
           /\ ~RanCmd("worktree add")
           /\ ~wt_registered
           /\ ~patch_exists
           /\ ~dir_exists
           /\ Exited => exit_code = 0
C5_Witness == Exited /\ EmptyPatchMade /\ exc.site = "empty_patch" /\ exit_code = 0

\* C6: when the pattern matches neither the source ref name, nor a logged
\* commit subject, nor the target name, no worktree, temporary directory or
\* patch file is ever created and no ticket ID is made up.
NoTicketAnywhere ==
    /\ git_log # <<>>
    /\ ~HasTicket(resolved_source_ref_name)
    /\ \A i \in 1..Len(LoggedCommits) : ~HasTicket(LoggedCommits[i])
    /\ ~HasTicket(target)
CommitsWithTicket == {i \in 1..Len(LoggedCommits) : HasTicket(LoggedCommits[i])}
FirstCommitWithTicket ==
    LoggedCommits[CHOOSE i \in CommitsWithTicket : \A k \in CommitsWithTicket : i <= k]
ExpectedTicket ==
    IF HasTicket(resolved_source_ref_name) THEN FirstMatch(resolved_source_ref_name)
    ELSE IF CommitsWithTicket # {} THEN FirstMatch(FirstCommitWithTicket)
    ELSE IF HasTicket(target) THEN FirstMatch(target)
    ELSE <<>>
C7_TicketPriority ==
    (pc = "prepare_message") => (jira_id = ExpectedTicket /\ jira_id # <<>>)
C7_Witness ==
    /\ pc = "prepare_message"
    /\ ~HasTicket(resolved_source_ref_name)
    /\ Len(LoggedCommits) = 2
    /\ ~HasTicket(LoggedCommits[1])
    /\ HasTicket(LoggedCommits[2])
    /\ HasTicket(target)
    /\ jira_id = FirstMatch(LoggedCommits[2])
    /\ jira_id # FirstMatch(target)

\* C8: once the conflict handling returned USER_WILL_RESOLVE, no add, commit
\* or push is run, and the worktree directory, its registration and the patch
\* file all stay, up to and including the exit.
C8_UserWillResolveKeepsAll ==
    (patch_status = "USER_WILL_RESOLVE")
        => /\ ~RanCmd("add -A")
           /\ ~RanCmd("commit")
           /\ ~RanCmd("push origin")
           /\ dir_exists
           /\ wt_registered
           /\ patch_exists
C8_Witness ==
    Exited /\ patch_status = "USER_WILL_RESOLVE" /\ choice = "2" /\ exit_code = 0

\* C9: after a normal completion (applied, committed, pushed) and after an
\* abort at the conflict menu, `git worktree remove --force` has been run,
\* the worktree directory is gone and the patch file is deleted.
NormalCompletion ==
    /\ Exited
    /\ exc = NoExc
    /\ patch_status = "APPLIED_CLEANLY"
    /\ <<"push origin", 0>> \in cmds
ExplicitAbort == Exited /\ choice = "5" /\ exc.site = "conflict_abort"
C10_CommitOnlyWhenAppliedCleanly ==
    (RanCmd("add -A") \/ RanCmd("commit") \/ RanCmd("push origin"))
        => /\ <<"apply --check", 0>> \in cmds
           /\ <<"apply", 0>> \in cmds
           /\ patch_status = "APPLIED_CLEANLY"
           /\ choice = "0"
C10_Witness ==
    /\ Exited
    /\ <<"add -A", 0>> \in cmds
    /\ <<"commit", 0>> \in cmds
    /\ <<"push origin", 0>> \in cmds

\* C11: on a clean apply at most one commit is made, exactly one once the
\* commit succeeded; it is on the branch provisioning returned and carries
\* the override message when one was given, the generated message otherwise;
\* the push is run only after the commit succeeded, to origin with the branch
\* name provisioning returned.
IsExpectedMessage(m) ==
    IF message # <<>>
    THEN m.kind = "override" /\ m.text = message
    ELSE /\ m.kind = "generated"
         /\ m.jira = jira_id
         /\ m.src = resolved_source_ref_name
         /\ m.tgt = target
CommitSucceeded == <<"commit", 0>> \in cmds
C11_OneCommitThenPush ==
    /\ Len(worktree_commits) = (IF CommitSucceeded THEN 1 ELSE 0)
    /\ CommitSucceeded
        => /\ patch_status = "APPLIED_CLEANLY"
           /\ worktree_commits[1].branch = new_branch_in_worktree
           /\ new_branch_in_worktree # NoBranch
           /\ IsExpectedMessage(worktree_commits[1].message)
    /\ RanCmd("push origin")
        => /\ CommitSucceeded
           /\ push_branch = new_branch_in_worktree
    /\ ~RanCmd("push origin") => push_branch = NoBranch
C11_Witness ==
    /\ Exited
    /\ NormalCompletion
    /\ message # <<>>
    /\ Len(worktree_commits) = 1
    /\ worktree_commits[1].message.text = message
    /\ push_branch = new_branch_in_worktree
    /\ push_branch.suffix > 0

\* C12: once option 2 ran `git apply --3way`, whether the command failed,
\* left conflicts or left none, the outcome is USER_WILL_RESOLVE and the run
\* never adds, commits or pushes.
C12_ThreeWayAlwaysUserResolves ==
    (choice = "2" /\ RanCmd("apply --3way"))
        => /\ patch_status = "USER_WILL_RESOLVE"
           /\ keep_worktree
           /\ Stopped
           /\ ~RanCmd("add -A")
           /\ ~RanCmd("commit")
           /\ ~RanCmd("push origin")
           /\ worktree_commits = <<>>
C12_Witness ==
    /\ Exited
    /\ choice = "2"
    /\ <<"apply --3way", 0>> \in cmds
    /\ wt_content = "merged"
    /\ patch_status = "USER_WILL_RESOLVE"

\* C13 as stated: a run in which option 3 or 4 was selected (and that was not
\* interrupted) ends with outcome USER_WILL_RESOLVE and with the worktree and
\* the patch file in place.
C13_EditorChoiceKeepsAll ==
    (Exited /\ choice \in {"3", "4"} /\ exc.type # "KeyboardInterrupt")
        => /\ patch_status = "USER_WILL_RESOLVE"
           /\ dir_exists
           /\ patch_exists

\* C13 amended: once option 3 or 4 launched the editor (the worktree
\* directory was still there), found or not, the outcome is USER_WILL_RESOLVE
\* and the worktree directory, its registration and the patch file stay up
\* to and including the exit.
C13_EditorLaunchKeepsAll ==
    (choice \in {"3", "4"} /\ RanCmd("editor"))
        => /\ patch_status = "USER_WILL_RESOLVE"
           /\ keep_worktree
           /\ WORKTREE_SHOULD_BE_KEPT
           /\ Stopped
           /\ exc = NoExc
           /\ dir_exists
           /\ wt_registered
           /\ patch_exists
           /\ ~RanCmd("worktree remove --force")
C13_Witness ==
    /\ Exited
    /\ choice = "4"
    /\ <<"editor", 1>> \in cmds
    /\ patch_status = "USER_WILL_RESOLVE"
    /\ dir_exists
    /\ patch_exists

\* C14: a push that fails after the commit is not fatal by itself, the user
\* is asked; after the answer yes the run ends as a success (success panel,
\* no exception, exit code 0); after the answer no it ends as a failure (the
\* error panel of the failed command, no success panel, a nonzero exit code).
C14_PushFailureAsksUser ==
    /\ (pc = "push_confirm")
        => (push_failed /\ exc = NoExc /\ CommitSucceeded /\ <<"push origin", 1>> \in cmds)
    /\ (continue_anyway # "none") => (push_failed /\ Stopped)
    /\ (continue_anyway = "yes")
        => /\ exc = NoExc
           /\ panel = "Success"
           /\ Exited => exit_code = 0
    /\ (continue_anyway = "no")
        => /\ exc.type = "ShellCommandError"
           /\ panel # "Success"
           /\ Exited => (panel = "Shell Command Error" /\ exit_code # 0)

\* C15: when the derived branch name existed and the user chose replace
\* (option 1), deletion of the stale local branch was attempted and the branch
\* created in the worktree and returned by _setup_worktree is exactly the
\* derived base name, never a suffixed one.
C15_ReplaceReusesBaseName ==
    (branch_choice = "1" /\ new_branch_in_worktree # NoBranch)
        => /\ RanCmd("branch -D")
           /\ new_branch_in_worktree = BaseBranch
           /\ wt_branch = BaseBranch

\* C16: when the derived branch name existed and the user chose disambiguate
\* (option 2), the timestamp-suffixed name produced differs from every branch
\* that exists already (the base name and the names earlier attempts
\* produced), whatever the clock reads.
C16_DisambiguatedNameIsFresh ==
    (branch_choice = "2" /\ pc = "setup_switch")
        => /\ new_branch_name # BaseBranch
           /\ new_branch_name \notin local_branches

BranchAbort == exc.site = "branch_abort"

ProvisioningFailureSites == {"worktree_empty", "git_switch", "branch_mismatch"}

\* C18: when provisioning failed after `git worktree add` succeeded (empty
\* worktree directory, `git switch -c` failure, active-branch mismatch),
\* `git worktree remove` has been run for the worktree and no worktree
\* registration of the run is left at exit.
C18_FailedProvisioningRemovesWorktree ==
    (Exited /\ exc.site \in ProvisioningFailureSites /\ <<"worktree add", 0>> \in cmds)
        => /\ RanCmd("worktree remove --force")
           /\ ~wt_registered

\* C19: at process exit the patch file of the run exists only when the
\* outcome is USER_WILL_RESOLVE; on every other exit path it is gone.
C19_PatchGoneUnlessUserResolves ==
    Exited => (patch_exists <=> patch_status = "USER_WILL_RESOLVE")

Interrupted == exc.type = "KeyboardInterrupt"

\* C20: a run that was interrupted from the keyboard ends back in the
\* original working directory, with the patch file deleted unless the outcome
\* USER_WILL_RESOLVE had been reached, and with the temporary directory or
\* worktree deleted unless it is kept for manual resolution.
C20_InterruptStillCleansUp ==
    (Exited /\ Interrupted)
        => /\ cwd = "original_dir"
           /\ (patch_status # "USER_WILL_RESOLVE") => ~patch_exists
           /\ ~(keep_worktree \/ WORKTREE_SHOULD_BE_KEPT) => ~dir_exists

\* C21: after the user declined the confirmation prompt no git worktree is
\* ever added, the patch file and the temporary directory of the preparation
\* are removed and the exit code is 0; a worktree is added only after the
\* user confirmed.
C21_DeclineAddsNoWorktree ==
    /\ (proceed_answer = "no")
        => /\ Stopped
           /\ ~RanCmd("worktree add")
           /\ ~wt_registered
           /\ ~patch_exists
           /\ ~dir_exists
           /\ Exited => exit_code = 0
    /\ (RanCmd("worktree add") \/ wt_registered) => proceed_answer = "yes"
C21_Witness ==
    /\ Exited
    /\ proceed_answer = "no"
    /\ exc.site = "declined"
    /\ ~patch_exists
    /\ ~dir_exists
    /\ exit_code = 0

\* C22: when a full commit message is given with -m/--message, a ticket ID
\* that cannot be determined from source, commits or target does not stop
\* the run: it never ends in the missing-ticket error.
C22_MessageOverridesMissingTicket ==
    (message # <<>>) => ~(exc.site = "no_ticket" /\ NoTicketAnywhere)

\* C24: the ref handed to `git worktree add` is origin/<target> when
\* `git rev-parse origin/<target>` exited with status 0 and the local ref
\* <target> when it exited nonzero.
C24_CheckoutRefFallsBackToLocal ==
    /\ (<<"rev-parse origin/target", 0>> \in cmds) => branch_ref = "origin/target"
    /\ (<<"rev-parse origin/target", 1>> \in cmds) => branch_ref = "target"

\* C25: whenever the log over the diff range returned no commit subject, the
\* fallback log `<source> ^<target>` has been issued (its output being the
\* commit list).
RangeLogEmpty ==
    /\ git_log # <<>>
    /\ git_log[1].status = "ok"
    /\ git_log[1].out = <<>>
C25_EmptyRangeLogFallsBack ==
    RangeLogEmpty => RanCmd("log fallback")

\* C26: whenever _setup_worktree has returned, the returned name is
\* feature/<TicketID>-<target with "/" replaced by "_"> or that name with a
\* timestamp suffix, and it is the branch checked out in the worktree; a
\* mismatch ends the run in a fatal error with nothing returned.
BaseNameWellFormed ==
    LET n == base_branch_name(jira_id, target)
        k == 8 + Len(jira_id)
    IN /\ Len(n) = k + 1 + Len(target)
       /\ SubSeq(n, 1, 8) = <<"f", "e", "a", "t", "u", "r", "e", "/">>
       /\ SubSeq(n, 9, k) = jira_id
       /\ n[k + 1] = "-"
       /\ \A i \in 1..Len(target) :
            n[k + 1 + i] = (IF target[i] = "/" THEN "_" ELSE target[i])
       /\ \A i \in (k + 1)..Len(n) : n[i] # "/"
C26_ReturnedBranchIsCheckedOut ==
    /\ (new_branch_in_worktree # NoBranch)
        => /\ new_branch_in_worktree = BaseBranch
              \/ new_branch_in_worktree \in {Suffixed(t) : t \in Clock}
           /\ wt_branch = new_branch_in_worktree
           /\ new_branch_in_worktree \in local_branches
           /\ BaseNameWellFormed
           /\ jira_id # <<>>
    /\ (exc.site = "branch_mismatch")
        => /\ new_branch_in_worktree = NoBranch
           /\ exc.type = "Exit"
           /\ exc.code = 1
           /\ Stopped
    /\ (<<"branch --show-current", 0>> \in cmds /\ wt_branch = NoBranch)
        => exc.site = "branch_mismatch"
C26_Witness ==
    /\ pc = "apply_check"
    /\ new_branch_in_worktree = Suffixed(1)
    /\ wt_branch = Suffixed(1)
    /\ target = RefT3
C26_WitnessMismatch == Exited /\ exc.site = "branch_mismatch"

\* C27: at process exit the worktree of the run is retained if and only if
\* the patch file of the run is retained.
WorktreeRetained == dir_exists /\ wt_registered
C27_WorktreeKeptIffPatchKept ==
    Exited => (WorktreeRetained <=> patch_exists)

\* the exit path named in C27: interrupted while the editor of option 3 or 4
\* was being launched, after the global keep flag was set
InterruptedInEditor ==
    /\ Exited
    /\ Interrupted
    /\ choice \in {"3", "4"}
    /\ WORKTREE_SHOULD_BE_KEPT
    /\ WorktreeRetained
    /\ ~patch_exists

\* C28: after a push failure the worktree named in the manual-retry
\* instruction still exists at process exit, whether the user answered yes
\* or no to "Continue anyway?".
C28_WorktreeKeptAfterPushFailure ==
    (Exited /\ push_failed /\ continue_anyway \in {"yes", "no"}) => dir_exists

\* C29: when the command of menu choice 1 (`git apply --reject`) or 2
\* (`git apply --3way`) is about to run, the worktree still holds the
\* unmodified checkout of the target branch.
C29_PatchAppliedAtMostOnce ==
    (pc \in {"reject", "threeway"}) => wt_content = "target"

\* C23: the merge behind get_effective_config follows the deep-merge rule for
\* every pair of inputs: the child's scalar overwrites the parent's, nested
\* mappings are merged recursively, and every list of the result is the set
\* union of the parent's and the child's lists with no duplicates, the hooks
\* list and the lists inside the settings mapping included.
IsUnion(r, a, b) ==
    /\ Range(r) = Range(a) \cup Range(b)
    /\ Cardinality(Range(r)) = Len(r)
RECURSIVE DeepMerged(_, _, _)
DeepMerged(r, a, b) ==
    /\ DOMAIN r = DOMAIN a \cup DOMAIN b
    /\ \A k \in DOMAIN r :
        IF k \notin DOMAIN b THEN r[k] = a[k]
        ELSE IF k \notin DOMAIN a THEN r[k] = b[k]
        ELSE IF a[k].kind = "dict" /\ b[k].kind = "dict"
        THEN r[k].kind = "dict" /\ DeepMerged(r[k].entries, a[k].entries, b[k].entries)
        ELSE IF a[k].kind = "list" /\ b[k].kind = "list"
        THEN r[k].kind = "list" /\ IsUnion(r[k].items, a[k].items, b[k].items)
        ELSE r[k] = b[k]
RECURSIVE GroupsMerged(_, _, _)
GroupsMerged(r, a, b) ==
    /\ DOMAIN r = DOMAIN a \cup DOMAIN b
    /\ \A t \in DOMAIN r :
        IF t \notin DOMAIN b THEN r[t] = a[t]
        ELSE IF t \notin DOMAIN a THEN r[t] = b[t]
        ELSE /\ IsUnion(r[t].allow, a[t].allow, b[t].allow)
             /\ IsUnion(r[t].deny, a[t].deny, b[t].deny)
             /\ GroupsMerged(r[t].commands, a[t].commands, b[t].commands)
C23_DeepMergeUnionsEveryList ==
    (cfg_pc = "merged")
        => /\ IsUnion(effective.allow, common.allow, specific.allow)
           /\ IsUnion(effective.deny, common.deny, specific.deny)
           /\ IsUnion(effective.env.allow, common.env.allow, specific.env.allow)
           /\ IsUnion(effective.env.block, common.env.block, specific.env.block)
           /\ GroupsMerged(effective.commands, common.commands, specific.commands)
           /\ effective.env.vars = dict_update(common.env.vars, specific.env.vars)
           /\ effective.network.proxy =
                (IF specific.network.proxy # 0 THEN specific.network.proxy
                 ELSE common.network.proxy)
           /\ IsUnion(effective.hooks, common.hooks, specific.hooks)
           /\ DeepMerged(effective.settings, common.settings, specific.settings)

\* C30: in cleanup_worktrees.main a worktree is removed, and its branch
\* force-deleted, only if its path does not end in ".bare", it has a
\* checked-out branch other than "main", the PR looked up for that branch has
\* state MERGED, and the user confirmed or --force was given; a worktree whose
\* lookup gave a closed or open PR, no PR, or failed or did not parse is never
\* removed.
LookupMerged(res) ==
    /\ res.status = 0
    /\ res.stdout.parses
    /\ res.stdout.data # <<>>
    /\ res.stdout.data[1].state = "MERGED"
Removable(i) ==
    /\ ~endswith(worktrees[i].path, ".bare")
    /\ worktrees[i].branch \notin {"", "main"}
    /\ i <= Len(lookups)
    /\ LookupMerged(lookups[i])
    /\ (force \/ confirm_answer = "yes")
C30_RemovesOnlyMergedConfirmed ==
    /\ \A p \in removed : \E i \in 1..Len(worktrees) : worktrees[i].path = p /\ Removable(i)
    /\ \A b \in branches_deleted :
        \E i \in 1..Len(worktrees) : worktrees[i].branch = b /\ Removable(i)
    /\ \A i \in 1..Len(lookups) :
        ~LookupMerged(lookups[i])
            => /\ worktrees[i].path \notin removed
               /\ worktrees[i].branch \notin branches_deleted
C30_Witness ==
    /\ cw_pc = "done"
    /\ \E i, j \in 1..Len(worktrees) :
        /\ worktrees[i].path \in removed
        /\ worktrees[i].branch \in branches_deleted
        /\ lookups[j].status = 0
        /\ lookups[j].stdout.data # <<>>
        /\ lookups[j].stdout.data[1].state = "CLOSED"
        /\ worktrees[j].path \notin removed

====
